---- MODULE Spec2Model ----
(***************************************************************************)
(* Model of extras/AFC_functions.py (AFC-Klipper-Add-On).                  *)
(*                                                                         *)
(*   SpecCfg : afcFunction.ConfigRewrite on a directory of text files.     *)
(*   SpecCal : afcFunction.cmd_CALIBRATE_AFC on a registry of lanes.       *)
(*   SpecHub : cmd_SET_BOWDEN_LENGTH and cmd_CALIBRATE_AFC on the hubs.    *)
(*   SpecTime: afcDeltaTime.                                               *)
(*   SpecAct : afcFunction.handle_activate_extruder.                       *)
(*                                                                         *)
(* Text is a sequence of one-character strings, a file is the sequence of  *)
(* the lines Python's "for line in f" yields (each with its terminator,    *)
(* the last one possibly without), a directory is the sequence of entries  *)
(* os.listdir returns, in listing order.                                   *)
(***************************************************************************)
EXTENDS Integers, Sequences, FiniteSets, TLC

VARIABLES
    fs,         \* the configuration directory (AFC.cfgloc), in listing order
    fs0,        \* the directory as it was when the last ConfigRewrite started
    cr,         \* what the last ConfigRewrite call was given and what it did
    reg,        \* the AFC registry: current, tool_start, tool_end, buffers
    cal,        \* what the last cmd_CALIBRATE_AFC call was given and what it did
    hubs,       \* AFC.hubs: per hub config_bowden_length and afc_bowden_length
    sb,         \* what the last cmd_SET_BOWDEN_LENGTH call was given and what it did
    tm,         \* the afcDeltaTime object and the clock datetime.now() reads
    tl,         \* what the last afcDeltaTime call was and what it did
    act         \* the printer, the tools and the lanes' steppers, buffers and leds

vars == <<fs, fs0, cr, reg, cal, hubs, sb, tm, tl, act>>

\* Python's None
None == "None"

(***************************************************************************)
(* Text helpers (Python str methods and the re pattern of ConfigRewrite).  *)
(***************************************************************************)
NL == "\n"
SP == " "

Max(a, b) == IF a >= b THEN a ELSE b

\* str.startswith
StartsWith(line, prefix) ==
    /\ Len(line) >= Len(prefix)
    /\ SubSeq(line, 1, Len(prefix)) = prefix

\* str.index(ch): the 0-based position of the first ch, -1 for ValueError
IndexOf(line, ch) ==
    IF \E i \in 1..Len(line) : line[i] = ch
    THEN (CHOOSE i \in 1..Len(line) :
              /\ line[i] = ch
              /\ \A j \in 1..(i - 1) : line[j] # ch) - 1
    ELSE -1

\* Python's line[a:-1] for 0 <= a
SliceToLast(line, a) == SubSeq(line, a + 1, Len(line) - 1)

\* str.ljust(width, " "): pads on the right, never truncates
LJust(s, width) ==
    IF Len(s) >= width THEN s ELSE s \o [i \in 1..(width - Len(s)) |-> SP]

\* \s* of the pattern: the first 1-based position at or after i that holds no blank
RECURSIVE SkipWs(_, _)
SkipWs(line, i) ==
    IF i <= Len(line) /\ line[i] \in {SP, "\t"} THEN SkipWs(line, i + 1) ELSE i

\* re.match("^\[\s*{}\s*\]".format(rawsection), line) is not None
MatchSection(rawsection, line) ==
    /\ Len(line) >= 1
    /\ line[1] = "["
    /\ LET a == SkipWs(line, 2)
           b == a + Len(rawsection)
       IN  /\ b - 1 <= Len(line)
           /\ SubSeq(line, a, b - 1) = rawsection
           /\ LET c == SkipWs(line, b)
              IN  c <= Len(line) /\ line[c] = "]"

(***************************************************************************)
(* ConfigRewrite, lines 59-100.                                            *)
(***************************************************************************)
\* lines 76-82: comment_index (0 when the line has no '#')
CommentIndex(line) == IF IndexOf(line, "#") < 0 THEN 0 ELSE IndexOf(line, "#")

\* lines 76-82: comments ("" when the line has no '#')
CommentText(line) ==
    IF IndexOf(line, "#") < 0 THEN <<>> ELSE SliceToLast(line, IndexOf(line, "#"))

\* line 83: "{}: {}".format(rawkey, rawvalue)
KeyValueText(rawkey, rawvalue) == rawkey \o <<":", SP>> \o rawvalue

\* line 85 with the ljust left out
PadToComment_NoPad(text, comment_index) == text

\* line 85: the padding of the new text up to the column before the comment
PadToComment(text, comment_index) == LJust(text, comment_index - 1)

\* lines 76-87: the line written in place of a matching key line
RewriteLine(line, rawkey, rawvalue) ==
    PadToComment(KeyValueText(rawkey, rawvalue), CommentIndex(line))
        \o <<SP>> \o CommentText(line) \o <<NL>>

\* line 72: a line starting with "[" ends the section that was found
SectionAfterBracket(sectionfound, line) ==
    IF sectionfound /\ StartsWith(line, <<"[">>) THEN FALSE ELSE sectionfound

\* lines 69-90: the scan of one file.  st = [sectionfound, taskdone, dataout,
\* hits]; hits are the positions of the lines that were rewritten.
RECURSIVE ScanLines(_, _, _, _, _, _)
ScanLines(lines, i, st, rawsection, rawkey, rawvalue) ==
    IF i > Len(lines) THEN st
    ELSE
        LET line == lines[i]
            sf1  == SectionAfterBracket(st.sectionfound, line)
            sf2  == IF MatchSection(rawsection, line) THEN TRUE ELSE sf1
            hit  == sf2 /\ StartsWith(line, rawkey)
        IN  ScanLines(lines, i + 1,
                [sectionfound |-> IF hit THEN FALSE ELSE sf2,
                 taskdone     |-> IF hit THEN TRUE ELSE st.taskdone,
                 dataout      |-> Append(st.dataout,
                                     IF hit THEN RewriteLine(line, rawkey, rawvalue)
                                     ELSE line),
                 hits         |-> IF hit THEN st.hits \cup {i} ELSE st.hits],
                rawsection, rawkey, rawvalue)

\* line 68: dataout = '' at the start of every file; sectionfound is not reset
ScanFile(lines, sectionfound, rawsection, rawkey, rawvalue) ==
    ScanLines(lines, 1,
        [sectionfound |-> sectionfound, taskdone |-> FALSE,
         dataout |-> <<>>, hits |-> {}],
        rawsection, rawkey, rawvalue)

\* line 66: os.path.isfile(file_path) and filename.endswith(".cfg")
IsCfgFile(entry) == entry.cfg

\* lines 64-100: the loop over the directory.  Returns the directory after the
\* call, the outcome logged, the entries opened for writing and the lines
\* rewritten in the written entry.  Lines 92-94 write dataout over the file
\* (f.close is named, not called: CPython closes and flushes the file when f
\* goes out of scope at the return of line 98).
RECURSIVE ScanDir(_, _, _, _, _, _)
ScanDir(dir, i, sectionfound, rawsection, rawkey, rawvalue) ==
    IF i > Len(dir)
    THEN [dir |-> dir, outcome |-> "notfound", written |-> <<>>, hits |-> {}]
    ELSE IF ~IsCfgFile(dir[i])
    THEN ScanDir(dir, i + 1, sectionfound, rawsection, rawkey, rawvalue)
    ELSE
        LET st == ScanFile(dir[i].data, sectionfound, rawsection, rawkey, rawvalue)
        IN  IF st.taskdone
            THEN [dir     |-> [dir EXCEPT ![i].data = st.dataout],
                  outcome |-> "saved",
                  written |-> <<i>>,
                  hits    |-> st.hits]
            ELSE ScanDir(dir, i + 1, st.sectionfound, rawsection, rawkey, rawvalue)

(***************************************************************************)
(* The directories ConfigRewrite is run on.                                *)
(***************************************************************************)
\* lines of configuration files
HdrS     == <<"[", "S", "]", NL>>
HdrSws   == <<"[", SP, "S", SP, "]", NL>>
HdrT     == <<"[", "T", "]", NL>>
KeyLine  == <<"k", ":", SP, "1", NL>>
KeyCmt   == <<"k", ":", SP, "1", SP, SP, "#", "c", NL>>
KeyCmtNoNl == <<"k", ":", SP, "1", SP, SP, "#", "c">>
LongKey  == <<"k", "x", ":", SP, "1", NL>>
OtherKey == <<"m", ":", SP, "2", NL>>

\* the contents a file of the directory may have
FileMenu ==
    { <<HdrS, KeyCmt, OtherKey>>,          \* the key, with a comment, in [S]
      <<HdrT, OtherKey, HdrSws, KeyLine>>, \* the key, without comment, in [ S ]
      <<HdrS, KeyCmtNoNl>>,                \* the key line ends the file, no newline
      <<HdrS, OtherKey>>,                  \* [S] without the key, file ends in [S]
      <<KeyLine, OtherKey>>,               \* the key before any section header
      <<HdrS, HdrT, KeyCmt>>,              \* the key in another section
      <<HdrS, LongKey, KeyLine>>,          \* a longer key first
      <<HdrS, KeyLine, HdrS, KeyCmt>> }    \* the section twice

\* directory entries: .cfg files, and one entry that is no .cfg file
DirEntries ==
    { [cfg |-> TRUE, data |-> f] : f \in FileMenu }
        \cup { [cfg |-> FALSE, data |-> <<HdrS, KeyCmt, OtherKey>>] }

\* the most entries a directory holds
MaxFiles == 4

RECURSIVE SeqsUpTo(_, _)
SeqsUpTo(S, n) ==
    IF n = 0 THEN { <<>> }
    ELSE LET shorter == SeqsUpTo(S, n - 1)
         IN  shorter \cup { Append(q, x) : q \in { r \in shorter : Len(r) = n - 1 }, x \in S }

Directories == SeqsUpTo(DirEntries, MaxFiles)

\* the arguments ConfigRewrite is called with
Sections == { <<"S">> }
Keys     == { <<"k">> }
Values   == { <<"7">>, <<"1", "2", "3", "4", "5">> }

NoCall == [called |-> FALSE, rawsection |-> <<>>, rawkey |-> <<>>, rawvalue |-> <<>>,
           log |-> <<>>, written |-> <<>>, hits |-> {}]

(***************************************************************************)
(* The AFC registry cmd_CALIBRATE_AFC reads: AFC.lanes (an ordered dict),  *)
(* AFC.units, AFC.current, and per lane its unit_obj, extruder_obj and     *)
(* buffer_obj.  All lanes feed one extruder.                               *)
(***************************************************************************)
LaneOrder == <<"lane1", "lane2", "lane3">>
Lanes     == { LaneOrder[i] : i \in 1..Len(LaneOrder) }
Units     == { "unitA", "unitB" }

\* identifiers a request may carry that are registered nowhere
BogusLane == "lane9"
BogusUnit == "unit9"

\* defaults of gcmd.get_float
DefaultDistance  == 25
DefaultTolerance == 5

Registries ==
    [ current    : Lanes \cup {None},
      tool_start : {None, "pin", "buffer"},
      tool_end   : {None, "pin"},
      buffer_obj : [Lanes -> {None, "TN"}],
      unit_of    : [Lanes -> Units] ]

\* the registry while ConfigRewrite is studied
RegIdle == [ current |-> None, tool_start |-> "pin", tool_end |-> None,
             buffer_obj |-> [l \in Lanes |-> None],
             unit_of |-> [l \in Lanes |-> "unitA"] ]

CalIdle == [called |-> FALSE]

\* AFC.hubs and the lanes' hub_obj (line 499); two hubs, lane3 on the second
Hubs  == { "hub1", "hub2" }
HubOf == [l \in Lanes |-> IF l = "lane3" THEN "hub2" ELSE "hub1"]

\* the hubs, the SET_BOWDEN_LENGTH record and the timer while they are not studied
HubsIdle == [h \in Hubs |-> [config_bowden_length |-> 200, afc_bowden_length |-> 200]]
SbIdle   == [called |-> FALSE, serial |-> 0]
\* a time that is None, and a time attribute that was never assigned; the
\* times themselves are whole ticks from 0
NoneTime == -1
NoAttr   == -2

TmIdle   == [start_time |-> NoneTime, last_time |-> NoneTime, major_delta_time |-> NoAttr,
             clock |-> 0]
TlIdle   == [op |-> "init", now |-> 0, raised |-> None, log |-> <<>>]

\* AFC.tools: the extruders AFC manages
Tools == { "extruder", "extruder1" }

\* the printer, tools and lanes while handle_activate_extruder is not studied
ActIdle ==
    [ called |-> FALSE, ready |-> TRUE, extruder |-> "extruder",
      lane_loaded |-> [t \in Tools |-> None],
      stepper |-> [l \in Lanes |-> FALSE], buffer |-> [l \in Lanes |-> FALSE],
      stepper0 |-> [l \in Lanes |-> FALSE],
      led |-> [l \in Lanes |-> "off"], spool |-> "", log |-> <<>> ]

InitCfg ==
    /\ fs \in Directories
    /\ fs0 = fs
    /\ cr = NoCall
    /\ reg = RegIdle
    /\ cal = CalIdle
    /\ hubs = HubsIdle
    /\ sb = SbIdle
    /\ tm = TmIdle
    /\ tl = TlIdle
    /\ act = ActIdle

\* lines 59-100 as a function of the directory: the directory after the call
\* and the record of the call
ConfigRewriteCall(dir, rawsection, rawkey, rawvalue) ==
    LET r == ScanDir(dir, 1, FALSE, rawsection, rawkey, rawvalue)
    IN  [dir |-> r.dir,
         cr  |-> [called |-> TRUE, rawsection |-> rawsection, rawkey |-> rawkey,
                  rawvalue |-> rawvalue, log |-> <<r.outcome>>,
                  written |-> r.written, hits |-> r.hits]]

\* lines 59-100: one call of ConfigRewrite(rawsection, rawkey, rawvalue)
ConfigRewrite ==
    \E rawsection \in Sections, rawkey \in Keys, rawvalue \in Values :
        LET r == ConfigRewriteCall(fs, rawsection, rawkey, rawvalue)
        IN  /\ fs0' = fs
            /\ fs' = r.dir
            /\ cr' = r.cr
            /\ UNCHANGED <<reg, cal, hubs, sb, tm, tl, act>>

NextCfg == ConfigRewrite

SpecCfg == InitCfg /\ [][NextCfg]_vars

(***************************************************************************)
(* What the claims about ConfigRewrite speak of.  "Inside the section" is  *)
(* read per file, as the specification words it: a header of the section   *)
(* precedes the line in the same file, with no line starting with "["      *)
(* in between.                                                             *)
(***************************************************************************)
InSection(lines, i, rawsection) ==
    \E j \in 1..(i - 1) :
        /\ MatchSection(rawsection, lines[j])
        /\ \A m \in (j + 1)..(i - 1) : ~StartsWith(lines[m], <<"[">>)

\* the lines of a file that hold the key inside the section
KeyLinesOf(lines, rawsection, rawkey) ==
    { i \in 1..Len(lines) :
        StartsWith(lines[i], rawkey) /\ InSection(lines, i, rawsection) }

\* the .cfg entries of a directory that contain the section+key pair
FilesWithPair(dir, rawsection, rawkey) ==
    { f \in 1..Len(dir) :
        dir[f].cfg /\ KeyLinesOf(dir[f].data, rawsection, rawkey) # {} }

\* the lines of entry f that differ between two directories
ChangedLines(before, after, f) ==
    IF Len(before[f].data) # Len(after[f].data)
    THEN 1..Max(Len(before[f].data), Len(after[f].data))
    ELSE { i \in 1..Len(before[f].data) : before[f].data[i] # after[f].data[i] }

\* the entries that differ between two directories
ChangedFiles(before, after) ==
    { f \in 1..Len(before) : before[f] # after[f] }

\* C1 (as claimed): when the section+key pair is present in exactly one .cfg
\* file, a ConfigRewrite call changes at most one line, a key line of the
\* section in that file; every other line and every other file is unchanged.
C1_OnlyTheKeyLineChanges ==
    (cr.called /\ Cardinality(FilesWithPair(fs0, cr.rawsection, cr.rawkey)) = 1)
        => LET f == CHOOSE g \in FilesWithPair(fs0, cr.rawsection, cr.rawkey) : TRUE
           IN  /\ ChangedFiles(fs0, fs) \subseteq {f}
               /\ \E i \in KeyLinesOf(fs0[f].data, cr.rawsection, cr.rawkey) :
                      ChangedLines(fs0, fs, f) \subseteq {i}

\* C2 (as claimed): when no .cfg file contains the key inside the section,
\* ConfigRewrite leaves every file as it was and logs "key not found", not
\* "saved".
C2_NotFoundWritesNothing ==
    (cr.called /\ FilesWithPair(fs0, cr.rawsection, cr.rawkey) = {})
        => /\ fs = fs0
           /\ cr.written = <<>>
           /\ cr.log = <<"notfound">>

\* the column of '#' in the line that replaced line i of the written entry
NewCommentColumn(i) == IndexOf(fs[cr.written[1]].data[i], "#")
OldCommentColumn(i) == IndexOf(fs0[cr.written[1]].data[i], "#")

\* the rewritten lines that carried an inline comment
CommentedHits ==
    IF cr.called /\ cr.written # <<>>
    THEN { i \in cr.hits : OldCommentColumn(i) >= 0 }
    ELSE {}

\* C3 (as claimed): the '#' of a rewritten line starts at the column where it
\* started in the original line, for every new value.
C3_CommentColumnKept ==
    \A i \in CommentedHits : NewCommentColumn(i) = OldCommentColumn(i)

\* C3 (amended): the '#' of a rewritten line starts at the original column when
\* "key: value" ends at least one column before it, and otherwise one blank
\* after "key: value": at max(original column, len("key: value") + 1).
C3_CommentColumnPaddedNotTruncated ==
    \A i \in CommentedHits :
        NewCommentColumn(i) =
            Max(OldCommentColumn(i), Len(KeyValueText(cr.rawkey, cr.rawvalue)) + 1)

\* C3 witness: a commented key line was rewritten with a text too long for the
\* original column, and one with a text short enough to be padded.
C3_Witness_LongValue ==
    \E i \in CommentedHits :
        /\ Len(KeyValueText(cr.rawkey, cr.rawvalue)) > OldCommentColumn(i) - 1
        /\ NewCommentColumn(i) > OldCommentColumn(i)

\* C4 (as claimed): when several .cfg files contain the pair, only the first
\* of them in listing order is written, nothing else changes, and one "saved"
\* is logged.
C4_FirstMatchingFileOnly ==
    (cr.called /\ Cardinality(FilesWithPair(fs0, cr.rawsection, cr.rawkey)) >= 2)
        => LET S == FilesWithPair(fs0, cr.rawsection, cr.rawkey)
               first == CHOOSE f \in S : \A g \in S : f <= g
           IN  /\ cr.written = <<first>>
               /\ ChangedFiles(fs0, fs) \subseteq {first}
               /\ cr.log = <<"saved">>

\* C20 (as claimed): a line is rewritten only if it lies inside the section of
\* the file being scanned: a header of the section precedes it in that same
\* file with no line starting with "[" in between; the state "inside the
\* section" is not carried from one file into the next.
C20_RewrittenLineInsideSectionOfItsFile ==
    (cr.called /\ cr.written # <<>>)
        => \A i \in cr.hits : InSection(fs0[cr.written[1]].data, i, cr.rawsection)

\* C21 (as claimed): a ConfigRewrite call rewrites at most one line, and when
\* the written file holds key lines inside the section, the line rewritten is
\* the first of them; also with the section header or the key repeated.
C21_AtMostOneLineRewritten ==
    (cr.called /\ cr.written # <<>>)
        => LET keylines == KeyLinesOf(fs0[cr.written[1]].data, cr.rawsection, cr.rawkey)
           IN  /\ Cardinality(cr.hits) <= 1
               /\ keylines # {} => \A i \in cr.hits : \A j \in keylines : i <= j

\* a line without its line terminator
WithoutNewline(line) ==
    IF line # <<>> /\ line[Len(line)] = NL THEN SubSeq(line, 1, Len(line) - 1) ELSE line

\* the text of a line from its first '#' to its end, terminator excluded
InlineComment(line) ==
    SubSeq(WithoutNewline(line), IndexOf(line, "#") + 1, Len(WithoutNewline(line)))

\* C22 (as claimed): a rewritten line ends with the inline comment of the
\* original line, unchanged, and a newline, also when the original line ended
\* the file without a newline; a line without comment is rewritten to
\* "key: value", one blank and a newline.
C22_CommentTextKept ==
    (cr.called /\ cr.written # <<>>)
        => \A i \in cr.hits :
               LET old == fs0[cr.written[1]].data[i]
                   new == fs[cr.written[1]].data[i]
                   cmt == InlineComment(old)
               IN  IF IndexOf(old, "#") >= 0
                   THEN /\ Len(new) > Len(cmt)
                        /\ SubSeq(new, Len(new) - Len(cmt), Len(new)) = cmt \o <<NL>>
                   ELSE new = cr.rawkey \o <<":", SP>> \o cr.rawvalue \o <<SP, NL>>

(***************************************************************************)
(* cmd_CALIBRATE_AFC, lines 362-471.                                       *)
(*                                                                         *)
(* A request p carries LANE, UNIT and BOWDEN (None when absent), DISTANCE   *)
(* and TOLERANCE.  The units' calibrate_lane and calibrate_bowden are not  *)
(* part of this file: what they do is an input of the call, laneOK for     *)
(* calibrate_lane (per lane) and, for calibrate_bowden, an outcome: the    *)
(* pass measures a length ("ok"), fails and returns ("fail"), or leaves by *)
(* an exception ("raise").                                                 *)
(***************************************************************************)
Requests ==
    [ lane   : Lanes \cup {None, "all", BogusLane},
      unit   : Units \cup {None, BogusUnit},
      bowden : Lanes \cup {None, BogusLane},
      dis    : {DefaultDistance},
      tol    : {DefaultTolerance} ]

\* A text is a sequence of parts: <<"lit", t>> a literal of the source,
\* <<"msg", lane>> the message calibrate_lane returned for a lane.
Lit(t) == << <<"lit", t>> >>

\* lines 393-395 left out
ToolLoadedCheck_Dropped(r, p) == FALSE

\* line 393: a tool is loaded and a Bowden target is given
ToolLoadedCheck(r, p) == r.current # None /\ p.bowden # None

\* line 399
InvalidLane(p) == p.lane # None /\ p.lane # "all" /\ p.lane \notin Lanes

\* lines 403-405 left out
InvalidUnit_Dropped(p) == FALSE

\* line 403
InvalidUnit(p) == p.unit # None /\ p.unit \notin Units

\* line 407
InvalidBowden(p) == p.bowden # None /\ p.bowden \notin Lanes

\* lines 393-409: the first check that refuses the request, "ok" when none does
Validate(r, p) ==
    IF ToolLoadedCheck(r, p) THEN "tool_loaded"
    ELSE IF InvalidLane(p) THEN "invalid_lane"
    ELSE IF InvalidUnit(p) THEN "invalid_unit"
    ELSE IF InvalidBowden(p) THEN "invalid_bowden"
    ELSE "ok"

\* line 438: CUR_UNIT.lanes.values(), the lanes registered with a unit, in
\* registration order
RECURSIVE UnitLanesFrom(_, _, _)
UnitLanesFrom(r, unit, i) ==
    IF i > Len(LaneOrder) THEN <<>>
    ELSE (IF r.unit_of[LaneOrder[i]] = unit THEN <<LaneOrder[i]>> ELSE <<>>)
             \o UnitLanesFrom(r, unit, i + 1)

UnitLanes(r, unit) == UnitLanesFrom(r, unit, 1)

\* lines 429-440 taking the unit's lanes whenever a unit is given
LaneTargets_UnitWins(r, p) ==
    IF p.unit # None
    THEN [i \in 1..Len(UnitLanes(r, p.unit)) |->
             [unit |-> p.unit, lane |-> UnitLanes(r, p.unit)[i]]]
    ELSE IF p.lane # "all"
    THEN << [unit |-> r.unit_of[p.lane], lane |-> p.lane] >>
    ELSE [i \in 1..Len(LaneOrder) |->
             [unit |-> r.unit_of[LaneOrder[i]], lane |-> LaneOrder[i]]]

\* lines 435-440 looping over AFC.lanes as lines 423-425 do
LaneTargets_IgnoreUnit(r, p) ==
    IF p.lane # "all"
    THEN << [unit |-> r.unit_of[p.lane], lane |-> p.lane] >>
    ELSE [i \in 1..Len(LaneOrder) |->
             [unit |-> r.unit_of[LaneOrder[i]], lane |-> LaneOrder[i]]]

\* lines 415-442: the passes the request selects, in order, each with the
\* unit object whose calibrate_lane is called
LaneTargets(r, p) ==
    IF p.lane # "all"
    THEN << [unit |-> r.unit_of[p.lane], lane |-> p.lane] >>               \* 417-418, 430-431
    ELSE IF p.unit = None
    THEN [i \in 1..Len(LaneOrder) |->                                       \* 423-425
             [unit |-> r.unit_of[LaneOrder[i]], lane |-> LaneOrder[i]]]
    ELSE [i \in 1..Len(UnitLanes(r, p.unit)) |->                            \* 435-440
             [unit |-> p.unit, lane |-> UnitLanes(r, p.unit)[i]]]

\* the loops going on after a failed pass
AbortOnFailure_Never(checked) == FALSE

\* "if(not checked): return" at lines 419, 426, 432, 441
AbortOnFailure(checked) == ~checked

\* lines 418-420 and the loops at 423-427, 438-442: one pass after the other
RECURSIVE RunLanes(_, _, _, _, _, _)
RunLanes(targets, i, tol, laneOK, calls, cal_msg) ==
    IF i > Len(targets)
    THEN [aborted |-> FALSE, calls |-> calls, cal_msg |-> cal_msg]
    ELSE
        LET t       == targets[i]
            checked == laneOK[t.lane]
            calls2  == Append(calls,
                          [fn |-> "calibrate_lane", unit |-> t.unit, lane |-> t.lane,
                           tol |-> tol, checked |-> checked])
        IN  IF AbortOnFailure(checked)
            THEN [aborted |-> TRUE, calls |-> calls2, cal_msg |-> cal_msg]
            ELSE RunLanes(targets, i + 1, tol, laneOK, calls2,
                          Append(cal_msg, <<"msg", t.lane>>))

\* line 455 testing tool_start alone
UseBufferAsToolStart_OnlyToolStart(r, lane) == r.tool_start = None

\* line 455: only a post extruder sensor, and a buffer to stand in for tool_start
UseBufferAsToolStart(r, lane) ==
    /\ r.tool_start = None
    /\ r.tool_end # None
    /\ r.buffer_obj[lane] # None

\* line 452 taking the first registered lane
BowdenLane_First(p) == LaneOrder[1]

\* line 452: CUR_LANE = self.AFC.lanes[afc_bl]
BowdenLane(p) == p.bowden

\* lines 467-471: the statements after the call run when calibrate_bowden
\* returns; no try/finally encloses the call
BowdenReturns(out) == out.kind # "raise"

\* lines 387-471: the whole command.  Returns the registry after the call and
\* what the call did: calls (the passes run on unit objects, in order), log
\* (the texts given to logger.info), errors (AFC.ERROR.AFC_error), cal_msg
\* (the local when the function ends), returned (the text the function
\* returns: every return is a bare "return", so none) and raised (the
\* exception that left the command, None when it returned).
CalibrateAFC(r, p, laneOK, out) ==
    LET v    == Validate(r, p)
        base == [called |-> TRUE, p |-> p, reg0 |-> r, calls |-> <<>>, log |-> <<>>,
                 errors |-> <<>>, cal_msg |-> <<>>, returned |-> <<>>,
                 aborted |-> FALSE, raised |-> None]
    IN
    IF v = "tool_loaded"
    THEN [reg |-> r, cal |-> [base EXCEPT !.log = <<Lit("tool_must_be_unloaded")>>]]  \* 393-395
    ELSE IF v # "ok"
    THEN [reg |-> r, cal |-> [base EXCEPT !.errors = <<v>>]]                     \* 399-409
    ELSE
        LET d == IF p.lane # None
                 THEN RunLanes(LaneTargets(r, p), 1, p.tol, laneOK, <<>>,
                               Lit("calibration_distances"))                     \* 413-442
                 ELSE [aborted |-> FALSE, calls |-> <<>>, cal_msg |-> <<>>]
            log1 == IF p.lane # None
                    THEN <<Lit("starting_distance_calibrations")>> \o
                         (IF p.lane = "all" /\ p.unit # None
                          THEN <<Lit(p.unit)>> ELSE <<>>)                          \* 436
                    ELSE <<>>
            afterLanes ==
                [base EXCEPT !.calls = d.calls, !.cal_msg = d.cal_msg,
                             !.log = log1 \o (IF p.lane # None
                                              THEN <<Lit("lane_calibration_done")>>  \* 444
                                              ELSE <<Lit("no_lanes_selected")>>)]    \* 447
        IN
        IF d.aborted
        THEN [reg |-> r,
              cal |-> [base EXCEPT !.calls = d.calls, !.cal_msg = d.cal_msg,
                                   !.log = log1, !.aborted = TRUE]]
        ELSE IF p.bowden = None
        THEN [reg |-> r, cal |-> afterLanes]
        ELSE IF ~UseBufferAsToolStart(r, BowdenLane(p))
        THEN [reg |-> r,
              cal |-> [afterLanes EXCEPT !.errors = <<"cannot_calibrate_sensors">>]]  \* 461-462
        ELSE
            LET during == [r EXCEPT !.tool_start = "buffer"]                       \* 457
                called == [afterLanes EXCEPT
                     !.log = @ \o <<Lit("using_buffer"), Lit("starting_distance_calibrations")>>,
                     !.cal_msg = @ \o Lit("calibration_distances") \o Lit("update_hardware_cfg"),
                     !.calls = Append(@,                                           \* 467
                         [fn |-> "calibrate_bowden", unit |-> r.unit_of[BowdenLane(p)],
                          lane |-> BowdenLane(p), dis |-> p.dis, tol |-> p.tol,
                          tool_start |-> during.tool_start, checked |-> out.kind = "ok",
                          out |-> out])]
            IN  IF BowdenReturns(out)
                THEN [reg |-> [during EXCEPT !.tool_start = None],                 \* 470-471
                      cal |-> [called EXCEPT !.log = @ \o <<Lit("bowden_done")>>]]  \* 468
                ELSE [reg |-> during,
                      cal |-> [called EXCEPT !.raised = "calibrate_bowden"]]

(***************************************************************************)
(* The hubs in the configuration files.  Lengths are whole millimetres.    *)
(* The section names and the key are short stand-ins for "AFC_hub <name>"  *)
(* and "afc_bowden_length".                                                *)
(***************************************************************************)
HubSection(h) == IF h = "hub1" THEN <<"H", "1">> ELSE <<"H", "2">>
BowdenKey     == <<"b", "l">>

\* "{}".format(n) for a whole number n >= 0
Digits == <<"0", "1", "2", "3", "4", "5", "6", "7", "8", "9">>
RECURSIVE DecimalText(_)
DecimalText(n) ==
    IF n < 10 THEN <<Digits[n + 1]>>
    ELSE Append(DecimalText(n \div 10), Digits[(n % 10) + 1])

\* one configuration file holding both hubs' sections
HubFile ==
    << <<"[">> \o HubSection("hub1") \o <<"]", NL>>,
       BowdenKey \o <<":", SP>> \o DecimalText(200) \o <<SP, "#", "m", "m", NL>>,
       <<"[">> \o HubSection("hub2") \o <<"]", NL>>,
       BowdenKey \o <<":", SP>> \o DecimalText(200) \o <<NL>> >>

HubDirectory == << [cfg |-> TRUE, data |-> HubFile] >>

\* the lengths a successful Bowden pass measures
Measured == { 195, 210 }

\* what calibrate_bowden does
BowdenOutcomes ==
    { [kind |-> "ok", measured |-> m] : m \in Measured }
        \cup { [kind |-> "fail", measured |-> 0], [kind |-> "raise", measured |-> 0] }

\* CUR_LANE.unit_obj.calibrate_bowden(CUR_LANE, dis, tol), called at line
\* 467.  A successful pass stores the measured length in the working value
\* of the lane's hub and has ConfigRewrite persist it under the hub's
\* section and the Bowden-length key; a pass that fails or raises stores
\* nothing.
calibrate_bowden(h, dir, before, rec, lane, out) ==
    IF out.kind = "ok"
    THEN LET hub == HubOf[lane]
             w   == ConfigRewriteCall(dir, HubSection(hub), BowdenKey,
                                      DecimalText(out.measured))
         IN  [hubs |-> [h EXCEPT ![hub].afc_bowden_length = out.measured],
              dir |-> w.dir, before |-> dir, cr |-> w.cr]
    ELSE [hubs |-> h, dir |-> dir, before |-> before, cr |-> rec]

InitCal ==
    /\ reg \in Registries
    /\ cal = CalIdle
    /\ fs = HubDirectory
    /\ fs0 = fs
    /\ cr = NoCall
    /\ hubs = HubsIdle
    /\ sb = SbIdle
    /\ tm = TmIdle
    /\ tl = TlIdle
    /\ act = ActIdle

\* lines 362-471: one CALIBRATE_AFC command with its request drawn from reqs,
\* the units' answers from laneOKs and outs.  One command is followed from
\* every registry; the registry a command leaves is again one of Registries.
CalibrateCommand(reqs, laneOKs, outs) ==
    /\ ~cal.called
    /\ \E p \in reqs, laneOK \in laneOKs, out \in outs :
           LET res == CalibrateAFC(reg, p, laneOK, out)
               n   == Len(res.cal.calls)
               e   == IF n > 0 /\ res.cal.calls[n].fn = "calibrate_bowden"
                      THEN calibrate_bowden(hubs, fs, fs0, cr, res.cal.calls[n].lane, out)
                      ELSE [hubs |-> hubs, dir |-> fs, before |-> fs0, cr |-> cr]
           IN  /\ reg' = res.reg
               /\ cal' = res.cal
               /\ hubs' = e.hubs
               /\ fs' = e.dir
               /\ fs0' = e.before
               /\ cr' = e.cr
    /\ UNCHANGED <<sb, tm, tl, act>>

\* the answers of the units while the distance passes are studied
CalOutcomes ==
    { [kind |-> "ok", measured |-> 210],
      [kind |-> "fail", measured |-> 0], [kind |-> "raise", measured |-> 0] }

cmd_CALIBRATE_AFC == CalibrateCommand(Requests, [Lanes -> BOOLEAN], CalOutcomes)

NextCal == cmd_CALIBRATE_AFC

(***************************************************************************)
(* cmd_SET_BOWDEN_LENGTH, lines 474-522.                                   *)
(*                                                                         *)
(* HUB is a hub name or None; LENGTH is absent (given FALSE) or a text.    *)
(* Lengths are whole millimetres: float() is modelled on texts of an       *)
(* optional sign and decimal digits, every other text is a ValueError.     *)
(***************************************************************************)
BogusHub == "hub9"

NoLength      == [given |-> FALSE, text |-> <<>>]
LengthText(t) == [given |-> TRUE, text |-> t]

LengthParams ==
    { NoLength,
      LengthText(<<SP>>),
      LengthText(<<"+", "1", "0">>),
      LengthText(<<"-", "5">>),
      LengthText(<<"2", "1", "0">>),
      LengthText(<<"+">>) }

\* the working values followed
MinBowden == 190
MaxBowden == 215

\* length_param.strip() == ''
IsBlank(t) == \A i \in 1..Len(t) : t[i] \in {SP, "\t", NL}

IsDigit(c)    == \E d \in 1..Len(Digits) : Digits[d] = c
DigitValue(c) == (CHOOSE d \in 1..Len(Digits) : Digits[d] = c) - 1

RECURSIVE NatOf(_)
NatOf(t) ==
    IF t = <<>> THEN 0
    ELSE 10 * NatOf(SubSeq(t, 1, Len(t) - 1)) + DigitValue(t[Len(t)])

\* float(t): ok and the value, or a ValueError
ParseFloat(t) ==
    LET signed == t # <<>> /\ t[1] \in {"+", "-"}
        body   == IF signed THEN Tail(t) ELSE t
    IN  IF body # <<>> /\ \A i \in 1..Len(body) : IsDigit(body[i])
        THEN [ok |-> TRUE,
              value |-> IF signed /\ t[1] = "-" THEN 0 - NatOf(body) ELSE NatOf(body)]
        ELSE [ok |-> FALSE, value |-> 0]

\* line 498 and line 500 read self.current: afcFunction assigns no attribute
\* of that name (lines 20-26, 49-57), so the read is an AttributeError
ReadSelfCurrent(r) == [ok |-> FALSE, value |-> None]

\* lines 496-502: the hub the call adjusts, the message-and-return, or the
\* exception
ResolveHub(r, hub) ==
    IF hub = None /\ r.current # None                                          \* 497
    THEN LET c == ReadSelfCurrent(r)                                           \* 498
         IN  IF c.ok
             THEN [kind |-> "hub", hub |-> HubOf[c.value]]                     \* 499
             ELSE [kind |-> "raise", hub |-> "AttributeError"]
    ELSE IF hub = None                                                         \* 500
    THEN LET c == ReadSelfCurrent(r)
         IN  IF ~c.ok THEN [kind |-> "raise", hub |-> "AttributeError"]
             ELSE IF c.value = None
             THEN [kind |-> "no_hub", hub |-> None]                            \* 501-502
             ELSE [kind |-> "raise", hub |-> "KeyError"]                       \* 504, hubs[None]
    ELSE IF hub \notin Hubs
    THEN [kind |-> "raise", hub |-> "KeyError"]                                \* 504
    ELSE [kind |-> "hub", hub |-> hub]

\* lines 507-514 resetting to the baseline whatever LENGTH is
NewBowdenLength_Baseline(cur_hub, length_param) ==
    [ok |-> TRUE, value |-> cur_hub.config_bowden_length]

\* lines 505-514: bowden_length for the hub's record and the LENGTH parameter
NewBowdenLength(cur_hub, length_param) ==
    LET config_bowden == cur_hub.afc_bowden_length                             \* 505
    IN  IF ~length_param.given \/ IsBlank(length_param.text)                   \* 507
        THEN [ok |-> TRUE, value |-> cur_hub.config_bowden_length]             \* 508
        ELSE IF length_param.text[1] \in {"+", "-"}                            \* 510
        THEN LET bowden_value == ParseFloat(length_param.text)                 \* 511
             IN  [ok |-> bowden_value.ok,
                  value |-> config_bowden + bowden_value.value]                \* 512
        ELSE ParseFloat(length_param.text)                                     \* 514

\* line 516 storing the length in the baseline as well
StoreLength_Baseline(h, hub, bowden_length) ==
    [h EXCEPT ![hub].afc_bowden_length = bowden_length,
              ![hub].config_bowden_length = bowden_length]

\* line 516: CUR_HUB.afc_bowden_length = bowden_length
StoreLength(h, hub, bowden_length) ==
    [h EXCEPT ![hub].afc_bowden_length = bowden_length]

\* lines 493-522: the whole command.  Returns the hubs after the call and what
\* the call did: target (the hub adjusted, None when none), raised (the
\* exception that left the command, None when it returned) and log (the
\* message to logger.info, or the hub, baseline, previous and new length given
\* to logger.raw).
SetBowdenLength(r, h, hub, length_param) ==
    LET base == [called |-> TRUE, serial |-> 0, hub |-> hub, length |-> length_param,
                 current |-> r.current, target |-> None, raised |-> None, log |-> <<>>]
        t    == ResolveHub(r, hub)
    IN  IF t.kind = "raise"
        THEN [hubs |-> h, sb |-> [base EXCEPT !.raised = t.hub]]
        ELSE IF t.kind = "no_hub"
        THEN [hubs |-> h, sb |-> [base EXCEPT !.log = <<[msg |-> "lane_not_loaded"]>>]]
        ELSE
            LET n == NewBowdenLength(h[t.hub], length_param)
            IN  IF ~n.ok
                THEN [hubs |-> h, sb |-> [base EXCEPT !.raised = "ValueError"]]   \* 511, 514
                ELSE [hubs |-> StoreLength(h, t.hub, n.value),
                      sb |-> [base EXCEPT
                                 !.target = t.hub,
                                 !.log = <<[msg |-> "hub", hub |-> t.hub,
                                            config |-> h[t.hub].config_bowden_length,
                                            previous |-> h[t.hub].afc_bowden_length,
                                            new |-> n.value]>>]]

\* lines 474-522: one SET_BOWDEN_LENGTH command.  The record's serial
\* alternates from command to command, so that a command repeated with the
\* same effect still leaves a new record.
cmd_SET_BOWDEN_LENGTH ==
    /\ \E hub \in Hubs \cup {None, BogusHub}, length_param \in LengthParams :
           LET res == SetBowdenLength(reg, hubs, hub, length_param)
           IN  /\ \A x \in Hubs :
                      /\ res.hubs[x].afc_bowden_length >= MinBowden
                      /\ res.hubs[x].afc_bowden_length <= MaxBowden
               /\ hubs' = res.hubs
               /\ sb' = [res.sb EXCEPT !.serial = 1 - sb.serial]
    /\ UNCHANGED <<fs, fs0, cr, reg, cal, tm, tl, act>>

\* the registries and requests followed with the hubs: a Bowden pass is
\* possible on the buffer, a lane is loaded or none is
HubRegistries ==
    { r \in Registries :
        /\ r.current \in {None, "lane3"}
        /\ r.tool_start = None /\ r.tool_end = "pin"
        /\ \A l \in Lanes : r.buffer_obj[l] = "TN" /\ r.unit_of[l] = "unitA" }

HubRequests ==
    { p \in Requests : p.lane = None /\ p.unit = None /\ p.bowden \in {"lane1", "lane3"} }

\* hub1 adjusted since startup, hub2 as configured
HubsLoaded ==
    [HubsIdle EXCEPT !["hub1"].afc_bowden_length = 205]

InitHub ==
    /\ reg \in HubRegistries
    /\ hubs = HubsLoaded
    /\ sb = SbIdle
    /\ cal = CalIdle
    /\ fs = HubDirectory
    /\ fs0 = fs
    /\ cr = NoCall
    /\ tm = TmIdle
    /\ tl = TlIdle
    /\ act = ActIdle

\* lines 362-471: one CALIBRATE_AFC BOWDEN=<lane> command
cmd_CALIBRATE_AFC_BOWDEN ==
    CalibrateCommand(HubRequests, {[l \in Lanes |-> TRUE]}, BowdenOutcomes)

NextHub == cmd_SET_BOWDEN_LENGTH \/ cmd_CALIBRATE_AFC_BOWDEN

SpecHub == InitHub /\ [][NextHub]_vars

SpecCal == InitCal /\ [][NextCal]_vars

(***************************************************************************)
(* What the claims about cmd_CALIBRATE_AFC speak of.                       *)
(***************************************************************************)
\* the positions of the calls of one kind
CallsOf(fn) == { i \in 1..Len(cal.calls) : cal.calls[i].fn = fn }

\* the passes that reported failure
FailedLanePasses == { i \in CallsOf("calibrate_lane") : ~cal.calls[i].checked }

\* a batch distance calibration: LANE=all, with or without a unit
IsBatch == cal.called /\ cal.p.lane = "all"

\* the number of passes the batch selects
BatchSize ==
    IF cal.p.unit = None THEN Len(LaneOrder)
    ELSE Cardinality({ l \in Lanes : cal.reg0.unit_of[l] = cal.p.unit })

\* C5: in a batch distance calibration, a calibrate_lane pass that reports
\* failure is the last hardware pass of the request: no calibrate_lane and no
\* calibrate_bowden follows it.
C5_FailFastBatch ==
    IsBatch => \A i \in FailedLanePasses : i = Len(cal.calls)

\* C5 witness: a batch with a unit and a Bowden target whose sensors allow the
\* Bowden pass; its first pass failed and lanes of the batch were left untried.
C5_Witness_FailedWithLanesLeft ==
    /\ IsBatch
    /\ cal.p.unit \in Units
    /\ cal.p.bowden \in Lanes
    /\ cal.reg0.tool_start = None /\ cal.reg0.tool_end # None
    /\ cal.reg0.buffer_obj[cal.p.bowden] # None
    /\ FailedLanePasses = {1}
    /\ Len(cal.calls) = 1
    /\ BatchSize >= 2

\* the messages of the passes that succeeded, in order
RECURSIVE SucceededMsgsFrom(_)
SucceededMsgsFrom(i) ==
    IF i > Len(cal.calls) THEN <<>>
    ELSE (IF cal.calls[i].fn = "calibrate_lane" /\ cal.calls[i].checked
          THEN << <<"msg", cal.calls[i].lane>> >> ELSE <<>>)
             \o SucceededMsgsFrom(i + 1)

IsLaneMsg(part) == part[1] = "msg"

\* the texts the command hands to its caller or to the operator
Delivered == { cal.returned } \cup { cal.log[i] : i \in 1..Len(cal.log) }

\* C6 (as claimed): when a batch is aborted by a failing lane, a text delivered
\* by the command holds the messages of exactly the lanes that succeeded before
\* the failure, in order.
C6_PartialAggregateDelivered ==
    (IsBatch /\ cal.aborted)
        => \E d \in Delivered : SelectSeq(d, IsLaneMsg) = SucceededMsgsFrom(1)

\* C7: a request whose LANE is neither "all" nor a registered lane, or whose
\* UNIT is not a registered unit, or whose BOWDEN is not a registered lane, is
\* refused: one error is raised through AFC_error (or, with a tool loaded and a
\* Bowden target, the tool-must-be-unloaded refusal is logged), no pass is run
\* on any unit and the registry, tool_start included, is as before.
C7_HasInvalidId ==
    \/ cal.p.lane \notin Lanes \cup {None, "all"}
    \/ cal.p.unit \notin Units \cup {None}
    \/ cal.p.bowden \notin Lanes \cup {None}

C7_InvalidIdRefused ==
    (cal.called /\ C7_HasInvalidId)
        => /\ cal.calls = <<>>
           /\ reg = cal.reg0
           /\ \/ /\ Len(cal.errors) = 1
                 /\ cal.errors[1] \in {"invalid_lane", "invalid_unit", "invalid_bowden"}
              \/ /\ cal.reg0.current # None /\ cal.p.bowden # None
                 /\ cal.log = <<Lit("tool_must_be_unloaded")>>

\* C7 witness: an unregistered unit next to a registered lane, no tool loaded.
C7_Witness_BogusUnit ==
    /\ cal.called
    /\ cal.p.unit = BogusUnit /\ cal.p.lane \in Lanes /\ cal.p.bowden \in Lanes
    /\ cal.reg0.current = None
    /\ cal.errors = <<"invalid_unit">>

\* C8: with a tool loaded (AFC.current is not None) and a Bowden target given,
\* the command runs no pass and leaves tool_start as it was.
C8_ToolLoadedNoPass ==
    (cal.called /\ cal.reg0.current # None /\ cal.p.bowden # None)
        => /\ cal.calls = <<>>
           /\ reg.tool_start = cal.reg0.tool_start

\* C8 witness: a tool is loaded and the request, LANE and BOWDEN registered and
\* the sensors fit for the buffer substitution, would otherwise run passes.
C8_Witness_LoadedValidRequest ==
    /\ cal.called
    /\ cal.reg0.current # None
    /\ cal.p.lane \in Lanes /\ cal.p.unit = None /\ cal.p.bowden \in Lanes
    /\ cal.reg0.tool_start = None /\ cal.reg0.tool_end # None
    /\ cal.reg0.buffer_obj[cal.p.bowden] # None
    /\ cal.log = <<Lit("tool_must_be_unloaded")>>

\* a request that passed validation and whose distance passes all succeeded
ReachedBowden ==
    /\ cal.called
    /\ cal.reg0.current = None
    /\ cal.p.lane \in Lanes \cup {None, "all"}
    /\ cal.p.unit \in Units \cup {None}
    /\ cal.p.bowden \in Lanes
    /\ ~cal.aborted

\* C9 (as claimed): Bowden calibration of a registered lane with no tool loaded
\* ends with the sensor-configuration error only when the lane has neither a
\* pre-tool sensor nor a buffer, and with a pre-tool sensor configured
\* calibrate_bowden is called for the lane.
C9_PreToolSensorSuffices ==
    ReachedBowden
        => /\ ("cannot_calibrate_sensors" \in { cal.errors[i] : i \in 1..Len(cal.errors) }
                  => /\ cal.reg0.tool_start = None
                     /\ cal.reg0.buffer_obj[cal.p.bowden] = None)
           /\ (cal.reg0.tool_start # None
                  => \E i \in CallsOf("calibrate_bowden") :
                         cal.calls[i].lane = cal.p.bowden)

\* C10: a Bowden-only request (no LANE) for a lane with no pre-tool sensor, no
\* post-tool sensor and no buffer runs no pass at all, and, the request having
\* passed validation (no tool loaded, UNIT absent or registered), ends with the
\* sensor-configuration error.
C10_NoSensorsNoPass ==
    (/\ cal.called
     /\ cal.p.lane = None
     /\ cal.p.bowden \in Lanes
     /\ cal.reg0.tool_start = None
     /\ cal.reg0.tool_end = None
     /\ cal.reg0.buffer_obj[cal.p.bowden] = None)
        => /\ cal.calls = <<>>
           /\ reg = cal.reg0
           /\ (cal.reg0.current = None /\ cal.p.unit \in Units \cup {None})
                  => cal.errors = <<"cannot_calibrate_sensors">>

\* C10 witness: such a request, with no tool loaded, has ended with the error.
C10_Witness_NoSensors ==
    /\ cal.called
    /\ cal.p.lane = None /\ cal.p.unit = None /\ cal.p.bowden \in Lanes
    /\ cal.reg0.current = None
    /\ cal.reg0.tool_start = None /\ cal.reg0.tool_end = None
    /\ cal.reg0.buffer_obj[cal.p.bowden] = None
    /\ cal.errors = <<"cannot_calibrate_sensors">>
    /\ cal.log = <<Lit("no_lanes_selected")>>

\* a Bowden pass ran on the buffer standing in for tool_start
SubstitutedBuffer ==
    /\ cal.called
    /\ \E i \in 1..Len(cal.calls) :
           /\ cal.calls[i].fn = "calibrate_bowden"
           /\ cal.calls[i].tool_start = "buffer"
           /\ cal.reg0.tool_start = None

\* C11: whenever the command substituted the buffer for tool_start, then once
\* the command has ended, by a return or by an exception of calibrate_bowden,
\* tool_start is None again.
C11_BufferSubstitutionReverted ==
    SubstitutedBuffer => reg.tool_start = None

(***************************************************************************)
(* afcDeltaTime, lines 597-628.                                            *)
(*                                                                         *)
(* tm holds the object's three times and the clock datetime.now() reads;   *)
(* every call reads the clock once, at a time not before the last reading. *)
(* tl is the last call: op, now (what it read), raised (the exception that *)
(* left it, None when it returned) and log (the line it logged, as the     *)
(* level and the numbers formatted into it).                               *)
(***************************************************************************)
MaxTime == 5
MaxTick == 2

Call(op, now) == [op |-> op, now |-> now, raised |-> None, log |-> <<>>]

\* line 604: self.major_delta_time = self.last_time = self.start_time = now
SetStartTime(t, now) ==
    [tm |-> [t EXCEPT !.start_time = now, !.last_time = now,
                      !.major_delta_time = now, !.clock = now],
     tl |-> Call("set_start_time", now)]

\* line 615 assigning major_delta_time as well
LogWithTime_TouchesMajor(t, now, debug) ==
    [tm |-> [t EXCEPT !.last_time = now, !.major_delta_time = now, !.clock = now],
     tl |-> [Call("log_with_time", now) EXCEPT
                !.log = <<[level |-> IF debug THEN "debug" ELSE "info",
                           delta |-> now - t.last_time, total |-> now - t.start_time]>>]]

\* lines 606-615: the subtractions of lines 608 and 609 are a TypeError on a
\* time that is None
LogWithTime(t, now, debug) ==
    IF t.last_time = NoneTime \/ t.start_time = NoneTime
    THEN [tm |-> [t EXCEPT !.clock = now],
          tl |-> [Call("log_with_time", now) EXCEPT !.raised = "TypeError"]]
    ELSE [tm |-> [t EXCEPT !.last_time = now, !.clock = now],                  \* 615
          tl |-> [Call("log_with_time", now) EXCEPT
                     !.log = <<[level |-> IF debug THEN "debug" ELSE "info",   \* 611-614
                                delta |-> now - t.last_time,                   \* 608
                                total |-> now - t.start_time]>>]]              \* 609

\* lines 617-622: line 619 reads major_delta_time, an AttributeError while
\* set_start_time has not assigned it (__init__ does not)
LogMajorDelta(t, now) ==
    IF t.major_delta_time = NoAttr
    THEN [tm |-> [t EXCEPT !.clock = now],
          tl |-> [Call("log_major_delta", now) EXCEPT !.raised = "AttributeError"]]
    ELSE [tm |-> [t EXCEPT !.major_delta_time = now, !.clock = now],           \* 622
          tl |-> [Call("log_major_delta", now) EXCEPT
                     !.log = <<[level |-> "info",
                                delta |-> now - t.major_delta_time, total |-> 0]>>]]

\* lines 624-628: the subtraction of line 625 is a TypeError on None
LogTotalTime(t, now) ==
    IF t.start_time = NoneTime
    THEN [tm |-> [t EXCEPT !.clock = now],
          tl |-> [Call("log_total_time", now) EXCEPT !.raised = "TypeError"]]
    ELSE [tm |-> [t EXCEPT !.clock = now],
          tl |-> [Call("log_total_time", now) EXCEPT
                     !.log = <<[level |-> "info", delta |-> 0,
                                total |-> now - t.start_time]>>]]

\* datetime.now(): the clock's next readings
Now == { n \in tm.clock .. tm.clock + MaxTick : n <= MaxTime }

\* lines 598-601: a freshly constructed afcDeltaTime
InitTime ==
    /\ tm = TmIdle
    /\ tl = TlIdle
    /\ act = ActIdle
    /\ fs = <<>>
    /\ fs0 = <<>>
    /\ cr = NoCall
    /\ reg = RegIdle
    /\ cal = CalIdle
    /\ hubs = HubsIdle
    /\ sb = SbIdle

set_start_time ==
    /\ \E now \in Now :
           LET res == SetStartTime(tm, now) IN tm' = res.tm /\ tl' = res.tl
    /\ UNCHANGED <<fs, fs0, cr, reg, cal, hubs, sb, act>>

log_with_time ==
    /\ \E now \in Now, debug \in BOOLEAN :
           LET res == LogWithTime(tm, now, debug) IN tm' = res.tm /\ tl' = res.tl
    /\ UNCHANGED <<fs, fs0, cr, reg, cal, hubs, sb, act>>

log_major_delta ==
    /\ \E now \in Now :
           LET res == LogMajorDelta(tm, now) IN tm' = res.tm /\ tl' = res.tl
    /\ UNCHANGED <<fs, fs0, cr, reg, cal, hubs, sb, act>>

log_total_time ==
    /\ \E now \in Now :
           LET res == LogTotalTime(tm, now) IN tm' = res.tm /\ tl' = res.tl
    /\ UNCHANGED <<fs, fs0, cr, reg, cal, hubs, sb, act>>

NextTime == set_start_time \/ log_with_time \/ log_major_delta \/ log_total_time

SpecTime == InitTime /\ [][NextTime]_vars

\* set_start_time has been called
Started(t) == t.start_time # NoneTime

\* C18: after set_start_time, a log_with_time call logs the time since the
\* last fine checkpoint and since the start, sets last_time to the time it
\* read and leaves start_time and major_delta_time as they were; a
\* log_major_delta call sets major_delta_time to the time it read and leaves
\* last_time and start_time as they were.
C18_CheckpointStreamsIndependent ==
    [][ /\ (Started(tm) /\ tl'.op = "log_with_time")
            => /\ tl'.raised = None
               /\ Len(tl'.log) = 1
               /\ tl'.log[1].delta = tl'.now - tm.last_time
               /\ tl'.log[1].total = tl'.now - tm.start_time
               /\ tm'.last_time = tl'.now
               /\ tm'.start_time = tm.start_time
               /\ tm'.major_delta_time = tm.major_delta_time
        /\ (Started(tm) /\ tl'.op = "log_major_delta")
            => /\ tl'.raised = None
               /\ tm'.major_delta_time = tl'.now
               /\ tm'.last_time = tm.last_time
               /\ tm'.start_time = tm.start_time ]_vars

\* after interleaved calls the three times all differ, and the last
\* log_with_time logged different times since the checkpoint and the start
C18_Witness_StreamsApart ==
    /\ tl.op = "log_with_time" /\ tl.raised = None
    /\ tm.last_time = tl.now
    /\ tm.major_delta_time # tm.start_time
    /\ tm.major_delta_time # tm.last_time
    /\ tl.log[1].delta > 0
    /\ tl.log[1].delta < tl.log[1].total

\* C19 (as claimed): every call of the timer returns without an exception,
\* also a log call made before set_start_time.
C19_NoTimerCallFails == tl.raised = None

(***************************************************************************)
(* Properties of cmd_SET_BOWDEN_LENGTH and of the hubs' working values.    *)
(* A step of the command is one that changes the record sb; the unprimed   *)
(* variables are the state before the command, the primed ones after it.   *)
(***************************************************************************)
SetBowdenStep == sb' # sb

\* the texts of a bare number and of a signed offset
IsBareNumber(t) == t # <<>> /\ \A i \in 1..Len(t) : IsDigit(t[i])
IsOffset(t)     == Len(t) >= 2 /\ t[1] \in {"+", "-"} /\ IsBareNumber(Tail(t))
OffsetOf(t)     == IF t[1] = "-" THEN 0 - NatOf(Tail(t)) ELSE NatOf(Tail(t))

\* C12 (as claimed): a command given a signed offset N and a hub sets the
\* hub's working value to the hub's baseline config_bowden_length plus N,
\* whatever the working value was.
C12_RelativeToBaseline ==
    [][ (SetBowdenStep /\ sb'.hub \in Hubs /\ IsOffset(sb'.length.text))
            => hubs'[sb'.hub].afc_bowden_length
                   = hubs[sb'.hub].config_bowden_length + OffsetOf(sb'.length.text) ]_vars

\* C13: a command given a bare number v and a hub sets the hub's working
\* value to v, whatever the baseline and the working value were.
C13_AbsoluteSetsWorkingValue ==
    [][ (SetBowdenStep /\ sb'.hub \in Hubs /\ IsBareNumber(sb'.length.text))
            => hubs'[sb'.hub].afc_bowden_length = NatOf(sb'.length.text) ]_vars

\* a bare number was given for a hub whose baseline and working value both
\* differed from it, and the working value is now that number
C13_Witness_AbsoluteOverOtherValues ==
    /\ sb.called /\ sb.hub \in Hubs /\ IsBareNumber(sb.length.text)
    /\ sb.log # <<>>
    /\ sb.log[1].previous # NatOf(sb.length.text)
    /\ sb.log[1].config # NatOf(sb.length.text)
    /\ sb.log[1].previous # sb.log[1].config
    /\ hubs[sb.hub].afc_bowden_length = NatOf(sb.length.text)

\* C14 (as claimed): a command given no hub returns without an exception;
\* with a lane loaded it adjusts the hub of that lane, with none loaded it
\* logs the message and leaves every hub as it was.
C14_NoHubFallsBack ==
    [][ (SetBowdenStep /\ sb'.hub = None)
            => /\ sb'.raised = None
               /\ IF reg.current # None
                  THEN sb'.target = HubOf[reg.current]
                  ELSE sb'.log = <<[msg |-> "lane_not_loaded"]>> /\ hubs' = hubs ]_vars

\* C15: a command changes at most the working value of the hub it adjusts:
\* every baseline, every other hub, the configuration files and the record
\* of ConfigRewrite calls stay as they were.
C15_OnlyTargetWorkingValue ==
    [][ SetBowdenStep
            => /\ fs' = fs /\ fs0' = fs0 /\ cr' = cr
               /\ \A h \in Hubs :
                      /\ hubs'[h].config_bowden_length = hubs[h].config_bowden_length
                      /\ (h # sb'.target => hubs'[h] = hubs[h]) ]_vars

\* a command changed its hub's working value after a calibration had
\* ConfigRewrite write the other hub's value to the file
C15_Witness_ChangedAfterRewrite ==
    /\ sb.called /\ sb.target = "hub1"
    /\ sb.log[1].new # sb.log[1].previous
    /\ hubs["hub1"].afc_bowden_length = sb.log[1].new
    /\ cr.called /\ cr.rawsection = <<"H", "2">> /\ cr.written # <<>>

\* the Bowden pass of the last CALIBRATE_AFC command measured a length
BowdenPassed(c) ==
    /\ c.called
    /\ c.calls # <<>>
    /\ c.calls[Len(c.calls)].fn = "calibrate_bowden"
    /\ c.calls[Len(c.calls)].out.kind = "ok"

PlainExtruder == "extruder9"

\* spool_id and led_index of the lanes: lane2 has no led, the led object of
\* lane3 is not in the configuration
SpoolId  == [l \in Lanes |-> IF l = "lane1" THEN "spool1"
                             ELSE IF l = "lane2" THEN "spool2" ELSE "spool3"]
LedIndex == [l \in Lanes |-> IF l = "lane1" THEN "found"
                             ELSE IF l = "lane2" THEN None ELSE "missing"]

\* lines 178-188
GetCurrentLane(a) ==
    IF a.ready                                                                 \* 184
    THEN IF a.extruder \in Tools                                               \* 186
         THEN a.lane_loaded[a.extruder]                                        \* 187
         ELSE None
    ELSE None                                                                  \* 188

\* lines 190-199: the lane object, None when the name is no key of AFC.lanes
GetCurrentLaneObj(a) ==
    IF GetCurrentLane(a) \in Lanes THEN GetCurrentLane(a) ELSE None

\* lines 218-226: afc_led(status, idx) for the led of a lane
AfcLed(a, status, lane) ==
    IF LedIndex[lane] = None THEN a                                            \* 219-220
    ELSE IF LedIndex[lane] = "found"
    THEN [a EXCEPT !.led[lane] = status]                                       \* 224
    ELSE [a EXCEPT !.log = Append(@, "cannot_find_led")]                       \* 226

\* line 248 disabling the other lanes only while a lane is loaded
IsNonActive_OnlyWhenLoaded(cur_lane_loaded, key) ==
    cur_lane_loaded # None /\ key # cur_lane_loaded

\* line 248: cur_lane_loaded is None or key != cur_lane_loaded.name
IsNonActive(cur_lane_loaded, key) ==
    cur_lane_loaded = None \/ key # cur_lane_loaded

\* lines 247-251: the loop over AFC.lanes.items()
RECURSIVE DisableLoop(_, _, _)
DisableLoop(a, cur_lane_loaded, i) ==
    IF i > Len(LaneOrder) THEN a
    ELSE LET key == LaneOrder[i]
         IN  IF IsNonActive(cur_lane_loaded, key)
             THEN DisableLoop(
                      AfcLed([a EXCEPT !.stepper[key] = FALSE,                 \* 249
                                       !.buffer[key] = FALSE],                 \* 250
                             "led_ready", key),                                \* 251
                      cur_lane_loaded, i + 1)
             ELSE DisableLoop(a, cur_lane_loaded, i + 1)

\* lines 244-265: the whole handler
HandleActivateExtruder(a) ==
    LET cur_lane_loaded == GetCurrentLaneObj(a)                                \* 244
        b == DisableLoop([a EXCEPT !.called = TRUE, !.stepper0 = a.stepper,
                                   !.log = <<>>],
                         cur_lane_loaded, 1)
    IN  IF cur_lane_loaded = None
        THEN [b EXCEPT !.spool = ""]                                           \* 254-256
        ELSE LET c == AfcLed([b EXCEPT !.spool = SpoolId[cur_lane_loaded]],    \* 259
                             "led_tool_loaded", cur_lane_loaded)               \* 261
             IN  [c EXCEPT !.stepper[cur_lane_loaded] = TRUE,                  \* 263
                           !.buffer[cur_lane_loaded] = TRUE]                   \* 265

\* the states the handler is called in
ActStates ==
    [ called : {FALSE}, ready : BOOLEAN, extruder : Tools \cup {PlainExtruder},
      lane_loaded : [Tools -> Lanes \cup {None, BogusLane}],
      stepper : [Lanes -> BOOLEAN], buffer : [Lanes -> BOOLEAN],
      stepper0 : {[l \in Lanes |-> FALSE]},
      led : {[l \in Lanes |-> "off"]}, spool : {"", "spool9"}, log : {<<>>} ]

InitAct ==
    /\ act \in ActStates
    /\ fs = <<>>
    /\ fs0 = <<>>
    /\ cr = NoCall
    /\ reg = RegIdle
    /\ cal = CalIdle
    /\ hubs = HubsIdle
    /\ sb = SbIdle
    /\ tm = TmIdle
    /\ tl = TlIdle

\* lines 238-265: one call of the handler
handle_activate_extruder ==
    /\ act' = HandleActivateExtruder(act)
    /\ UNCHANGED <<fs, fs0, cr, reg, cal, hubs, sb, tm, tl>>

NextAct == handle_activate_extruder

SpecAct == InitAct /\ [][NextAct]_vars

\* the lane loaded into the active extruder, None when there is none
LoadedLane(a) ==
    IF a.extruder \in {"extruder", "extruder1"} /\ a.lane_loaded[a.extruder] \in Lanes
    THEN a.lane_loaded[a.extruder]
    ELSE None

\* the handler left every lane but cur disabled, cur (if any) enabled and,
\* with no cur, the active spool cleared
LeftOnlyEnabled(a, cur) ==
    /\ \A l \in Lanes \ {cur} : ~a.stepper[l] /\ ~a.buffer[l]
    /\ cur # None => a.stepper[cur] /\ a.buffer[cur]
    /\ Cardinality({ l \in Lanes : a.stepper[l] \/ a.buffer[l] }) <= 1
    /\ cur = None => a.spool = ""

PassedChecks(c) ==
    /\ c.called
    /\ ~(c.reg0.current # None /\ c.p.bowden # None)
    /\ c.p.lane \in Lanes \cup {None, "all"}
    /\ c.p.unit \in Units \cup {None}
    /\ c.p.bowden \in Lanes \cup {None}

\* the calibrate_lane passes of the command, in the order they ran
LanePasses(c) == SelectSeq(c.calls, LAMBDA x : x.fn = "calibrate_lane")

\* the lanes registered with the unit the command named, in registration order
OwnedLanes(c) == SelectSeq(LaneOrder, LAMBDA l : c.reg0.unit_of[l] = c.p.unit)

\* C17 (as claimed): a command that names a registered unit and no lane runs
\* one calibrate_lane pass for every lane of that unit and for no other lane.
C17_UnitAloneRunsItsLanes ==
    (PassedChecks(cal) /\ cal.p.unit \in Units /\ cal.p.lane = None)
        => { LanePasses(cal)[i].lane : i \in 1..Len(LanePasses(cal)) }
               = { OwnedLanes(cal)[i] : i \in 1..Len(OwnedLanes(cal)) }

\* C17 (amended): a command that names a registered unit runs no pass when
\* LANE is absent; with LANE=all it runs the passes on the unit's lanes, in
\* registration order, on the unit named, stopping after the first pass that
\* fails, and on no lane outside the unit.
C17_UnitWithAllRunsItsLanes ==
    (PassedChecks(cal) /\ cal.p.unit \in Units)
        => LET passes == LanePasses(cal)
               owned  == OwnedLanes(cal)
               n      == Len(passes)
           IN  /\ cal.p.lane = None => n = 0
               /\ cal.p.lane = "all" =>
                      /\ n <= Len(owned)
                      /\ \A i \in 1..n :
                             /\ passes[i].lane = owned[i]
                             /\ passes[i].unit = cal.p.unit
                             /\ i < n => passes[i].checked
                      /\ n < Len(owned) => (n > 0 /\ ~passes[n].checked)

\* LANE=all with a unit that owns two of the three lanes: both were
\* calibrated, the third lane was not
C17_Witness_TwoOfThreeLanes ==
    /\ PassedChecks(cal) /\ cal.p.unit \in Units /\ cal.p.lane = "all"
    /\ Len(OwnedLanes(cal)) = 2
    /\ Len(LanePasses(cal)) = 2
    /\ LanePasses(cal)[2].checked

\* C23: a command that names a registered lane and a registered unit, and
\* that the checks of lines 393-409 let through, runs exactly one
\* calibrate_lane pass: on the lane named, through the unit that lane
\* belongs to.
C23_LaneBeforeUnit ==
    (PassedChecks(cal) /\ cal.p.lane \in Lanes /\ cal.p.unit \in Units)
        => /\ Len(LanePasses(cal)) = 1
           /\ LanePasses(cal)[1].lane = cal.p.lane
           /\ LanePasses(cal)[1].unit = cal.reg0.unit_of[cal.p.lane]

\* the lane named belongs to another unit than the unit named, which owns
\* the two other lanes: one pass ran, on the lane named
C23_Witness_LaneOfOtherUnit ==
    /\ PassedChecks(cal) /\ cal.p.lane \in Lanes /\ cal.p.unit \in Units
    /\ cal.reg0.unit_of[cal.p.lane] # cal.p.unit
    /\ Len(OwnedLanes(cal)) = 2
    /\ Len(LanePasses(cal)) = 1
    /\ LanePasses(cal)[1].lane = cal.p.lane

\* C24: in a command with a lane selector and a Bowden target the calls on
\* the units come one after the other: every calibrate_lane call precedes
\* the calibrate_bowden call, no lane gets two calibrate_lane calls,
\* calibrate_bowden is called at most once, and only when no calibrate_lane
\* call of the command failed.
C24_PassesSerialized ==
    (cal.called /\ cal.p.lane # None /\ cal.p.bowden # None)
        => LET lanepasses == { i \in 1..Len(cal.calls) : cal.calls[i].fn = "calibrate_lane" }
               bowden     == { i \in 1..Len(cal.calls) : cal.calls[i].fn = "calibrate_bowden" }
           IN  /\ \A i \in lanepasses : \A j \in bowden : i < j
               /\ \A i \in lanepasses : \A j \in lanepasses :
                      cal.calls[i].lane = cal.calls[j].lane => i = j
               /\ Cardinality(bowden) <= 1
               /\ bowden # {} => \A i \in lanepasses : cal.calls[i].checked

\* LANE=all with a Bowden target: three distance passes, then the Bowden pass
C24_Witness_ThreeLanesThenBowden ==
    /\ cal.called /\ cal.p.lane = "all" /\ cal.p.bowden \in Lanes
    /\ Len(cal.calls) = 4
    /\ \A i \in 1..3 : cal.calls[i].fn = "calibrate_lane" /\ cal.calls[i].checked
    /\ cal.calls[4].fn = "calibrate_bowden"

====
